---- MODULE Spec2Model ----
(***************************************************************************)
(* Model of the multi-provider embedding index of semantic-mail:           *)
(* EmailVectorStore (src/search/vector_store.py), the index handle         *)
(* (src/search/chroma_client.py), EmailSearcher (src/search/searcher.py),  *)
(* the embedder factory and resolver (src/embedding/embedder_factory.py),  *)
(* the providers' model identities and batches, and the sync, search and   *)
(* ask commands (src/cli.py).                                              *)
(*                                                                         *)
(* Strings are sequences of tokens: a token is either one of the separator *)
(* characters ":", "-", "_" or a word that contains no separator, so that  *)
(* str.replace and str.startswith act on tokens as they act on characters. *)
(* Python's None is the empty string for the optional provider and model   *)
(* arguments (the code only tests their truthiness) and the record None    *)
(* for an optional embedding.                                              *)
(***************************************************************************)
EXTENDS Integers, Sequences, FiniteSets, TLC

VARIABLES collections, syncFiles, now, last, resolved, chroma

vars == <<collections, syncFiles, now, last, resolved, chroma>>

---------------------------------------------------------------------------
(* Bounds of the exploration.                                              *)

\* longest list of emails or records handed to one call
MaxLen == 3
\* last value of the wall clock
MaxClock == 2
\* most collections that exist in the index at once
MaxCollections == 2

\* The chunk size of the existence check and of the insert
\* (vector_store.py:120 sets 100); scaled so that MaxLen records span more
\* than one chunk.  The code depends on it only through i // batch_size.
batch_size == 2

EmailIds == {"e1", "e2", "e3"}

---------------------------------------------------------------------------
(* Strings.                                                                *)

\* str.replace(old, new) for a one-character old and new
ReplaceChar(s, old, new) == [i \in DOMAIN s |-> IF s[i] = old THEN new ELSE s[i]]

\* str.startswith(prefix)
StartsWith(s, prefix) ==
    /\ Len(s) >= Len(prefix)
    /\ SubSeq(s, 1, Len(prefix)) = prefix

\* str.replace(old, ""): every non-overlapping occurrence of old, scanning
\* from the left, is removed
RECURSIVE RemoveAll(_, _)
RemoveAll(s, old) ==
    IF Len(s) < Len(old) \/ old = <<>> THEN s
    ELSE IF SubSeq(s, 1, Len(old)) = old
         THEN RemoveAll(SubSeq(s, Len(old) + 1, Len(s)), old)
         ELSE <<Head(s)>> \o RemoveAll(Tail(s), old)

\* the set of the elements of a sequence
Range(s) == {s[i] : i \in DOMAIN s}

\* whether a list holds some element twice
HasDuplicates(s) == \E i, j \in DOMAIN s : i < j /\ s[i] = s[j]

\* the slice s[i : j] of Python, positions counted from 0
Slice(s, i, j) == SubSeq(s, i + 1, IF j < Len(s) THEN j ELSE Len(s))

Min(a, b) == IF a < b THEN a ELSE b

---------------------------------------------------------------------------
(* Settings (config.py).                                                   *)

embedding_provider == "ollama"
ollama_model == <<"nomic", "-", "embed", "-", "text">>
openai_model == <<"text", "-", "embedding", "-", "3", "-", "small">>

---------------------------------------------------------------------------
(* Embedding providers.                                                    *)

None == [some |-> FALSE]
Vec(n) == [some |-> TRUE, len |-> n]

OllamaEmbedder(model_name) ==
    [provider |-> "ollama",
     model_name |-> IF model_name # <<>> THEN model_name ELSE ollama_model]

OpenAIEmbedder(model_name) ==
    [provider |-> "openai",
     model_name |-> IF model_name # <<>> THEN model_name ELSE openai_model]

OllamaModelId(model_name) == <<"ollama", "_">> \o ReplaceChar(model_name, ":", "_")

OpenAIModelId(model_name) == <<"openai", "_">> \o ReplaceChar(model_name, "-", "_")

\* BaseEmbedder.get_model_id
get_model_id(embedder) ==
    IF embedder.provider = "ollama"
    THEN OllamaModelId(embedder.model_name)
    ELSE OpenAIModelId(embedder.model_name)

\* OpenAIEmbedder._get_model_dimension
OpenAIModelDimension(model_name) ==
    CASE model_name = <<"text", "-", "embedding", "-", "3", "-", "small">> -> 1536
      [] model_name = <<"text", "-", "embedding", "-", "3", "-", "large">> -> 3072
      [] model_name = <<"text", "-", "embedding", "-", "ada", "-", "002">> -> 1536
      [] OTHER -> 1536

\* OllamaEmbedder.get_embedding_dimension: the length of the vector the
\* model answers the probe with
OllamaModelDimension(model_name) == 768

get_embedding_dimension(embedder) ==
    IF embedder.provider = "ollama"
    THEN OllamaModelDimension(embedder.model_name)
    ELSE OpenAIModelDimension(embedder.model_name)

\* The length of the vectors the provider answers with.  Ollama: the length
\* get_embedding_dimension probes.  OpenAI: the length of the model itself,
\* which for the models of the table is the table's; a model the table does
\* not list has a length of its own (1024 here), whatever the table's
\* default says.
VectorLength(embedder) ==
    IF embedder.provider = "ollama"
    THEN OllamaModelDimension(embedder.model_name)
    ELSE CASE embedder.model_name = <<"text", "-", "embedding", "-", "3", "-", "small">> -> 1536
           [] embedder.model_name = <<"text", "-", "embedding", "-", "3", "-", "large">> -> 3072
           [] embedder.model_name = <<"text", "-", "embedding", "-", "ada", "-", "002">> -> 1536
           [] OTHER -> 1024

\* what the provider's model answers for one text: a vector made from it
EmbeddingOf(embedder, text) ==
    [some |-> TRUE, len |-> VectorLength(embedder), text |-> text]

\* OllamaEmbedder.generate_embeddings_batch: generate_embedding for one text
\* after the other, from position i on; failed holds the positions whose
\* request fails (generate_embedding answers None for them)
RECURSIVE OllamaBatchLoop(_, _, _, _, _)
OllamaBatchLoop(embedder, texts, i, failed, embeddings) ==
    IF i > Len(texts) THEN embeddings
    ELSE OllamaBatchLoop(embedder, texts, i + 1, failed,
             Append(embeddings,
                    IF i \in failed THEN None ELSE EmbeddingOf(embedder, texts[i])))

\* The chunk size of OpenAIEmbedder.generate_embeddings_batch
\* (openai_embedder.py:58 sets 100), scaled like batch_size.
embedding_batch_size == 2

\* OpenAIBatchLoop with one None appended for a failed chunk
RECURSIVE OpenAIBatchLoopOneNone(_, _, _, _, _)
OpenAIBatchLoopOneNone(embedder, texts, i, failed, embeddings) ==
    IF i >= Len(texts) THEN embeddings
    ELSE LET batch == Slice(texts, i, i + embedding_batch_size)
         IN  OpenAIBatchLoopOneNone(embedder, texts, i + embedding_batch_size, failed,
                 IF (i \div embedding_batch_size) + 1 \in failed
                 THEN embeddings \o <<None>>
                 ELSE embeddings
                          \o [k \in DOMAIN batch |-> EmbeddingOf(embedder, batch[k])])

\* OpenAIEmbedder.generate_embeddings_batch: the loop over the chunks from
\* 0-based offset i on; failed holds the numbers of the chunks (from 1)
\* whose request raises.  A request that succeeds answers one embedding per
\* text of the chunk, in the order of the texts.
RECURSIVE OpenAIBatchLoop(_, _, _, _, _)
OpenAIBatchLoop(embedder, texts, i, failed, embeddings) ==
    IF i >= Len(texts) THEN embeddings
    ELSE LET batch == Slice(texts, i, i + embedding_batch_size)
         IN  OpenAIBatchLoop(embedder, texts, i + embedding_batch_size, failed,
                 IF (i \div embedding_batch_size) + 1 \in failed
                 THEN embeddings \o [k \in DOMAIN batch |-> None]
                 ELSE embeddings
                          \o [k \in DOMAIN batch |-> EmbeddingOf(embedder, batch[k])])

\* BaseEmbedder.generate_embeddings_batch
generate_embeddings_batch(embedder, texts, failed) ==
    IF embedder.provider = "ollama"
    THEN OllamaBatchLoop(embedder, texts, 1, failed, <<>>)
    ELSE OpenAIBatchLoop(embedder, texts, 0, failed, <<>>)

\* embedder_factory.get_embedder; the provider is one of the CLI's choices
get_embedder(provider, model) ==
    LET p == IF provider # "" THEN provider ELSE embedding_provider
    IN  IF p = "ollama" THEN OllamaEmbedder(model) ELSE OpenAIEmbedder(model)

---------------------------------------------------------------------------
(* The vector index (chromadb), as EmailVectorStore uses it.  A collection *)
(* is [metadata, docs, provider, model_name]: docs maps each stored id to   *)
(* its vector; provider and model_name record the embedder whose store     *)
(* created the collection (the index does not keep them; the code never    *)
(* reads them).                                                            *)

\* Collection.count
count(collection) == Cardinality(DOMAIN collection.docs)

\* Collection.get(ids=batch_ids, include=[]): raises on a backend error
\* (failed) and, in the releases that validate the ids of a get
\* (strict_get), on a list that repeats an id
ChromaGetRaises(batch_ids, failed, strict_get) ==
    failed \/ (strict_get /\ HasDuplicates(batch_ids))

\* the ids a successful Collection.get answers with
ChromaGetIds(docs, batch_ids) == Range(batch_ids) \cap DOMAIN docs

\* Collection.add(ids=...): raises on a backend error and on a request that
\* repeats an id (DuplicateIDError); nothing of the request is stored then
ChromaAddRaises(request, failed) ==
    failed \/ HasDuplicates([i \in DOMAIN request |-> request[i].email])

\* Collection.add on success: an id that is stored already is left as it is
\* (the index logs it and carries on), every other record is stored
ChromaAdd(docs, request) ==
    LET fresh == {request[i].email : i \in DOMAIN request} \ DOMAIN docs
        vectorOf(id) == (CHOOSE i \in DOMAIN request : request[i].email = id)
    IN  [id \in DOMAIN docs \cup fresh |->
            IF id \in DOMAIN docs THEN docs[id]
            ELSE request[vectorOf(id)].embedding]

\* chroma_client.py.  A handle is a PersistentClient: the directory it was
\* opened on and its place among the handles the process has created.
NoClient == [some |-> FALSE]

NoManager == [client |-> NoClient, created |-> 0]

\* ChromaClientManager.get_client: the manager after the call; what the call
\* answers is the manager's client
get_client(manager, persist_directory) ==
    IF manager.client = NoClient
    THEN [client |-> [some |-> TRUE, path |-> persist_directory,
                      serial |-> manager.created + 1],
          created |-> manager.created + 1]
    ELSE manager

\* ChromaClientManager.reset
reset(manager) == [manager EXCEPT !.client = NoClient]

---------------------------------------------------------------------------
(* EmailVectorStore.                                                       *)

collection_name(model_id) == <<"emails", "_">> \o model_id

\* NewCollection with the dimension of the default model written for every
\* embedder
NewCollectionFixedDimension(embedder) ==
    [metadata |-> [space |-> "cosine",
                   model_id |-> get_model_id(embedder),
                   embedding_dimension |->
                       get_embedding_dimension(get_embedder("", <<>>))],
     docs |-> [id \in {} |-> None],
     provider |-> embedder.provider,
     model_name |-> embedder.model_name]

\* the collection _init_collection creates when get_collection fails
NewCollection(embedder) ==
    [metadata |-> [space |-> "cosine",
                   model_id |-> get_model_id(embedder),
                   embedding_dimension |-> get_embedding_dimension(embedder)],
     docs |-> [id \in {} |-> None],
     provider |-> embedder.provider,
     model_name |-> embedder.model_name]

\* EmailVectorStore.__init__ and _init_collection: the index after the store
\* of the embedder is opened
init_collection(colls, embedder) ==
    LET name == collection_name(get_model_id(embedder))
    IN  IF name \in DOMAIN colls THEN colls
        ELSE [n \in DOMAIN colls \cup {name} |->
                IF n = name THEN NewCollection(embedder) ELSE colls[n]]

\* EmailVectorStore.get_last_sync_date; 0 is None
get_last_sync_date(files, name) ==
    IF name \in DOMAIN files THEN files[name] ELSE 0

\* the try block of get_last_sync_date: unreadable is a sync directory or a
\* sync file that cannot be read or parsed, which raises
LastSyncDateRead(files, name, unreadable) ==
    IF unreadable
    THEN [raised |-> TRUE, date |-> 0]
    ELSE [raised |-> FALSE, date |-> get_last_sync_date(files, name)]

\* GetLastSyncDate with the except clause removed
GetLastSyncDateUncaught(files, name, unreadable) ==
    LastSyncDateRead(files, name, unreadable)

\* EmailVectorStore.get_last_sync_date with its except clause: an error of
\* the read is printed and None is answered
GetLastSyncDate(files, name, unreadable) ==
    IF LastSyncDateRead(files, name, unreadable).raised
    THEN [raised |-> FALSE, date |-> 0]
    ELSE LastSyncDateRead(files, name, unreadable)

\* update_last_sync_date with the write lost: the sync file stays as it is
update_last_sync_date_unwritten(files, name, clock) == files

\* EmailVectorStore.update_last_sync_date: the sync file of the collection
\* is rewritten with datetime.now()
update_last_sync_date(files, name, clock) ==
    [n \in DOMAIN files \cup {name} |-> IF n = name THEN clock ELSE files[n]]

\* the records of s at the positions in keep, in order
RECURSIVE SelectAt(_, _, _)
SelectAt(s, keep, i) ==
    IF i > Len(s) THEN <<>>
    ELSE (IF i \in keep THEN <<s[i]>> ELSE <<>>) \o SelectAt(s, keep, i + 1)

\* InsertLoop with the loop left after its first insert request
InsertLoopFirstRequestOnly(docs, new_records, i, add_failed, stale) ==
    IF i >= Len(new_records)
    THEN [docs |-> docs, raised |-> FALSE, stale |-> stale, requests |-> 0,
          backend_failed |-> FALSE]
    ELSE LET request == Slice(new_records, i, Min(i + batch_size, Len(new_records)))
         IN  IF ChromaAddRaises(request, add_failed = (i \div batch_size) + 1)
             THEN [docs |-> docs, raised |-> TRUE, stale |-> stale,
                   requests |-> 1,
                   backend_failed |-> add_failed = (i \div batch_size) + 1]
             ELSE [docs |-> ChromaAdd(docs, request), raised |-> FALSE,
                   stale |-> stale, requests |-> 1, backend_failed |-> FALSE]

\* InsertLoop with an insert request that raised sent a second time, which
\* the backend then takes; requests counts the requests sent so far
RECURSIVE InsertLoopRetrying(_, _, _, _, _, _)
InsertLoopRetrying(docs, new_records, i, add_failed, stale, requests) ==
    IF i >= Len(new_records)
    THEN [docs |-> docs, raised |-> FALSE, stale |-> stale,
          requests |-> requests, backend_failed |-> add_failed \in 1..requests]
    ELSE LET end_idx == Min(i + batch_size, Len(new_records))
             request == Slice(new_records, i, end_idx)
         IN  IF ChromaAddRaises(request, FALSE)
             THEN [docs |-> docs, raised |-> TRUE, stale |-> stale,
                   requests |-> requests + 1, backend_failed |-> FALSE]
             ELSE InsertLoopRetrying(ChromaAdd(docs, request), new_records,
                      end_idx, add_failed, stale,
                      requests + (IF add_failed = (i \div batch_size) + 1
                                  THEN 2 ELSE 1))

InsertLoopRetry(docs, new_records, i, add_failed, stale) ==
    InsertLoopRetrying(docs, new_records, i, add_failed, stale, 0)

\* add_emails, lines 149-169: the insert loop from 0-based offset i on.
\* add_failed is the number of the insert request the backend fails (0: none).
\* Answers the documents stored, whether a request raised, how many ids
\* were sent in a request while they were stored already, how many insert
\* requests were sent and whether the backend failed one of them.
RECURSIVE InsertLoop(_, _, _, _, _)
InsertLoop(docs, new_records, i, add_failed, stale) ==
    IF i >= Len(new_records)
    THEN [docs |-> docs, raised |-> FALSE, stale |-> stale,
          requests |-> (i + batch_size - 1) \div batch_size,
          backend_failed |-> FALSE]
    ELSE LET end_idx == Min(i + batch_size, Len(new_records))
             request == Slice(new_records, i, end_idx)
             sent == [k \in DOMAIN request |-> request[k].email]
             seen == Cardinality({k \in DOMAIN sent : sent[k] \in DOMAIN docs})
         IN  IF ChromaAddRaises(request, add_failed = (i \div batch_size) + 1)
             THEN [docs |-> docs, raised |-> TRUE, stale |-> stale + seen,
                   requests |-> (i \div batch_size) + 1,
                   backend_failed |-> add_failed = (i \div batch_size) + 1]
             ELSE InsertLoop(ChromaAdd(docs, request), new_records, end_idx,
                             add_failed, stale + seen)

\* WithEmbedding without the filter: every record is kept
WithEmbeddingUnfiltered(emails_with_embeddings) == emails_with_embeddings

\* add_emails, lines 86-115: the records that carry an embedding, in order
WithEmbedding(emails_with_embeddings) ==
    SelectSeq(emails_with_embeddings, LAMBDA r : r.embedding # None)

\* NewRecords with existing_set taken from the first chunk's check for
\* every chunk
NewRecordsFirstChunk(docs, withEmbedding, get_failed, strict_get) ==
    LET ids == [i \in DOMAIN withEmbedding |-> withEmbedding[i].email]
        first == Slice(ids, 0, batch_size)
        existing_set ==
            IF ChromaGetRaises(first, 1 \in get_failed, strict_get)
            THEN {}
            ELSE ChromaGetIds(docs, first)
    IN  SelectAt(withEmbedding, {idx \in DOMAIN ids : ids[idx] \notin existing_set}, 1)

\* NewRecords with a failed existence check taken to answer every id of
\* its chunk: the chunk is left out
NewRecordsFailedCheckSkipsChunk(docs, withEmbedding, get_failed, strict_get) ==
    LET ids == [i \in DOMAIN withEmbedding |-> withEmbedding[i].email]
        batch_ids(k) == Slice(ids, (k - 1) * batch_size, k * batch_size)
        existing_set(k) ==
            IF ChromaGetRaises(batch_ids(k), k \in get_failed, strict_get)
            THEN Range(batch_ids(k))
            ELSE ChromaGetIds(docs, batch_ids(k))
        isNew(idx) == ids[idx] \notin existing_set(((idx - 1) \div batch_size) + 1)
    IN  SelectAt(withEmbedding, {idx \in DOMAIN ids : isNew(idx)}, 1)

\* add_emails, lines 127-147: the records whose id the existence check of
\* their chunk does not answer, in order.  get_failed is the set of the
\* checks (numbered from 1) the backend fails; a failed check answers no id.
NewRecords(docs, withEmbedding, get_failed, strict_get) ==
    LET ids == [i \in DOMAIN withEmbedding |-> withEmbedding[i].email]
        batch_ids(k) == Slice(ids, (k - 1) * batch_size, k * batch_size)
        existing_set(k) ==
            IF ChromaGetRaises(batch_ids(k), k \in get_failed, strict_get)
            THEN {}
            ELSE ChromaGetIds(docs, batch_ids(k))
        isNew(idx) == ids[idx] \notin existing_set(((idx - 1) \div batch_size) + 1)
    IN  SelectAt(withEmbedding, {idx \in DOMAIN ids : isNew(idx)}, 1)

\* AddResult with update_last_sync_date called whenever an insert was
\* attempted, also after an insert request that raised
AddResultSyncedAlways(docs, size, withEmbedding, new_records, loop) ==
    IF new_records = <<>>
    THEN [docs |-> docs, synced |-> FALSE, raised |-> FALSE,
          skipped_no_embedding |-> size - Len(withEmbedding),
          checked |-> Len(withEmbedding),
          duplicates |-> Len(withEmbedding) - Len(new_records),
          added |-> 0, stale |-> 0, requests |-> 0, backend_failed |-> FALSE]
    ELSE [docs |-> loop.docs, synced |-> TRUE, raised |-> loop.raised,
          skipped_no_embedding |-> size - Len(withEmbedding),
          checked |-> Len(withEmbedding),
          duplicates |-> Len(withEmbedding) - Len(new_records),
          added |-> Len(new_records), stale |-> loop.stale,
          requests |-> loop.requests, backend_failed |-> loop.backend_failed]

\* add_emails, lines 149-177: what the call answers once the insert loop has
\* ended as loop
AddResult(docs, size, withEmbedding, new_records, loop) ==
    IF new_records = <<>>
    THEN [docs |-> docs, synced |-> FALSE, raised |-> FALSE,
          skipped_no_embedding |-> size - Len(withEmbedding),
          checked |-> Len(withEmbedding),
          duplicates |-> Len(withEmbedding) - Len(new_records),
          added |-> 0, stale |-> 0, requests |-> 0, backend_failed |-> FALSE]
    ELSE [docs |-> loop.docs, synced |-> ~loop.raised, raised |-> loop.raised,
          skipped_no_embedding |-> size - Len(withEmbedding),
          checked |-> Len(withEmbedding),
          duplicates |-> Len(withEmbedding) - Len(new_records),
          added |-> Len(new_records), stale |-> loop.stale,
          requests |-> loop.requests, backend_failed |-> loop.backend_failed]

\* add_emails, lines 117-177, on the records that carry an embedding
AddWithEmbedding(docs, size, withEmbedding, new_records, add_failed) ==
    AddResult(docs, size, withEmbedding, new_records,
              InsertLoop(docs, new_records, 0, add_failed, 0))

\* EmailVectorStore.add_emails on the documents docs of the store's
\* collection.  get_failed is the set of existence checks the backend fails,
\* add_failed the insert request it fails.  Answers the documents
\* afterwards, whether update_last_sync_date was called (synced), whether
\* the call raised, and what it counted: the records skipped for want of an
\* embedding, the ids handed to the existence checks (checked), the
\* duplicates, the records handed to the insert (added), the ids sent in
\* an insert request while they were stored already (stale), the insert
\* requests sent (requests) and whether the backend failed one of them.
add_emails(docs, emails_with_embeddings, get_failed, add_failed, strict_get) ==
    AddWithEmbedding(docs, Len(emails_with_embeddings),
                     WithEmbedding(emails_with_embeddings),
                     NewRecords(docs, WithEmbedding(emails_with_embeddings),
                                get_failed, strict_get),
                     add_failed)

\* EmailVectorStore.check_emails_exist: (existing_ids, new_ids)
check_emails_exist(docs, email_ids, failed, strict_get) ==
    IF ChromaGetRaises(email_ids, failed, strict_get)
    THEN [existing |-> {}, new |-> Range(email_ids)]
    ELSE [existing |-> ChromaGetIds(docs, email_ids),
          new |-> Range(email_ids) \ ChromaGetIds(docs, email_ids)]

\* clear_collection with the deletion left out
clear_collection_undeleted(colls, embedder) == init_collection(colls, embedder)

\* clear_collection with every collection of the index deleted
clear_collection_all(colls, embedder) ==
    init_collection([n \in {} |-> NewCollection(embedder)], embedder)

\* EmailVectorStore.clear_collection: the collection is deleted and created
\* again by _init_collection; the sync file is not touched
clear_collection(colls, embedder) ==
    LET name == collection_name(get_model_id(embedder))
    IN  init_collection([n \in DOMAIN colls \ {name} |-> colls[n]], embedder)

\* EmailVectorStore.get_stats: failed is a count() the index fails; an
\* exception inside the try block leaves the dictionary {"total_emails": 0};
\* last_sync_date 0 is None
get_stats(collection, name, files, unreadable, failed) ==
    IF failed \/ GetLastSyncDate(files, name, unreadable).raised
    THEN [total_emails |-> 0]
    ELSE [total_emails |-> count(collection),
          collection_name |-> name,
          model_id |-> collection.metadata.model_id,
          embedding_dimension |-> collection.metadata.embedding_dimension,
          last_sync_date |-> GetLastSyncDate(files, name, unreadable).date]

---------------------------------------------------------------------------
(* Search.  distance maps each stored id to the distance of its vector     *)
(* from the query vector, in the metric of the collection.                 *)

\* Collection.query(query_embeddings=[q], n_results=n): raises on a backend
\* error and on an n that is not positive
ChromaQueryRaises(n_results, failed) == failed \/ n_results <= 0

\* Collection.query on success: the answers the index can give, the ids of
\* the n_results nearest vectors (all of them when fewer are stored) in
\* ascending distance; vectors at equal distance come in either order
ChromaQuery(docs, distance, n_results) ==
    {hits \in [1..Min(n_results, Cardinality(DOMAIN docs)) -> DOMAIN docs] :
        /\ \A i, j \in DOMAIN hits :
               i < j => /\ hits[i] # hits[j]
                        /\ distance[hits[i]] <= distance[hits[j]]
        /\ \A id \in DOMAIN docs \ Range(hits) :
               \A i \in DOMAIN hits : distance[hits[i]] <= distance[id]}

\* EmailVectorStore.search with n_results handed to the index as given
search_unclamped(docs, distance, n_results, failed, hits) ==
    IF ChromaQueryRaises(n_results, failed)
    THEN [queries |-> 1, asked |-> n_results, results |-> <<>>, raised |-> FALSE]
    ELSE [queries |-> 1, asked |-> n_results,
          results |-> [i \in DOMAIN hits |->
                          [id |-> hits[i], distance |-> distance[hits[i]]]],
          raised |-> FALSE]

\* EmailVectorStore.search: hits is what the index answers when the query
\* succeeds.  Answers the (id, distance) pairs, the number of queries sent,
\* the n_results asked for and whether the call raised.
search(docs, distance, n_results, failed, hits) ==
    IF ChromaQueryRaises(Min(n_results, Cardinality(DOMAIN docs)), failed)
    THEN [queries |-> 1, asked |-> Min(n_results, Cardinality(DOMAIN docs)),
          results |-> <<>>, raised |-> FALSE]
    ELSE [queries |-> 1, asked |-> Min(n_results, Cardinality(DOMAIN docs)),
          results |-> [i \in DOMAIN hits |->
                          [id |-> hits[i], distance |-> distance[hits[i]]]],
          raised |-> FALSE]

\* the dot product of two vectors of one length
RECURSIVE DotFrom(_, _, _)
DotFrom(a, b, i) ==
    IF i > Len(a) THEN 0 ELSE a[i] * b[i] + DotFrom(a, b, i + 1)

Dot(a, b) == DotFrom(a, b, 1)

\* The distance of v from q in the space the collections are created with,
\* "hnsw:space": "cosine", which is 1 - cos(q, v).  For vectors without
\* negative components it is given here as thousandths of 1 - cos(q, v)^2,
\* which is 0 exactly when 1 - cos(q, v) is and orders the vectors as
\* 1 - cos(q, v) does.
CosineDistance(q, v) ==
    1000 - (1000 * Dot(q, v) * Dot(q, v)) \div (Dot(q, q) * Dot(v, v))

\* the distances the index computes for the query vector q
DistancesTo(docs, q) == [id \in DOMAIN docs |-> CosineDistance(q, docs[id].v)]

\* EmailVectorStore.get_email_by_id
get_email_by_id(docs, email_id) ==
    IF email_id \in DOMAIN docs THEN [some |-> TRUE, id |-> email_id] ELSE None

\* EmailSearcher.search without the test of the query embedding
EmailSearcher_search_unchecked(docs, query_embedding, distance, n_results, failed, hits) ==
    LET found == search(docs, distance, n_results, failed, hits)
    IN  [found EXCEPT !.results =
            SelectSeq(found.results,
                      LAMBDA r : get_email_by_id(docs, r.id) # None)]

\* EmailSearcher.search: query_embedding is what generate_embedding answers
\* for the query text
EmailSearcher_search(docs, query_embedding, distance, n_results, failed, hits) ==
    IF query_embedding = None
    THEN [queries |-> 0, asked |-> 0, results |-> <<>>, raised |-> FALSE]
    ELSE LET found == search(docs, distance, n_results, failed, hits)
         IN  [found EXCEPT !.results =
                 SelectSeq(found.results,
                           LAMBDA r : get_email_by_id(docs, r.id) # None)]

---------------------------------------------------------------------------
(* State.                                                                  *)
(* collections: the collections of the index, by name.                     *)
(* syncFiles:   metadata/<name>_sync.json, by collection name: the time    *)
(*              written as last_sync_date.                                 *)
(* now:         datetime.now().                                            *)
(* last:        what the operation that has just run was given and what it *)
(*              answered; NoCall once the caller has taken the answer.     *)
(* resolved:    what the get_smart_embedder call that has just run         *)
(*              answered; NoResolution once the caller has taken it.       *)
(* chroma:      the ChromaClientManager of a process that asks for the     *)
(*              index handle of storage directories: its _client and the   *)
(*              number of handles created so far.  The operations above    *)
(*              run on the index of the one directory of the settings,     *)
(*              which is collections.                                      *)

\* what a call that is no sync run records as its plan
NoPlan ==
    [query |-> <<>>, incremental |-> FALSE, gmail_query |-> <<>>,
     clear |-> FALSE, confirm |-> FALSE, opened_ids |-> {}]

NoCall ==
    [op |-> "none", collection |-> <<>>, records |-> <<>>, strict_get |-> FALSE,
     size |-> 0, with_embedding |-> 0,
     distinct |-> TRUE, existing |-> 0, pre_ids |-> {}, pre_count |-> 0,
     pre_sync |-> 0,
     raised |-> FALSE, skipped_no_embedding |-> 0, checked |-> 0,
     duplicates |-> 0, added |-> 0, stale |-> 0, requests |-> 0,
     backend_failed |-> FALSE, embedded |-> 0,
     embedded_stored |-> 0, cleared |-> FALSE,
     get_failed |-> {}, add_failed |-> 0, plan |-> NoPlan]

NoResolution ==
    [provider |-> "", model |-> <<>>, matches |-> {},
     embedder |-> get_embedder("", <<>>), info |-> "none",
     collection |-> <<>>, email_count |-> 0]

\* no answer is waiting for the caller: the next operation can start
Idle == last = NoCall /\ resolved = NoResolution

Init ==
    /\ collections = [n \in {} |-> NewCollection(get_embedder("", <<>>))]
    /\ syncFiles = [n \in {} |-> 0]
    /\ now = 1
    /\ last = NoCall
    /\ resolved = NoResolution
    /\ chroma = NoManager

\* the lists of at most n elements of S
SeqsUpTo(S, n) == UNION {[1..k -> S] : k \in 0..n}

\* the record lists a caller can hand to add_emails of the embedder's store
RecordLists(embedder) ==
    SeqsUpTo([email : EmailIds,
              embedding : {None, Vec(VectorLength(embedder))}], MaxLen)

\* What a call of add_emails on the documents docs was given and what it
\* answered (r): size is the number of records, with_embedding the number of
\* them that carry an embedding, distinct whether those have pairwise
\* different ids, existing the number of them whose id was stored before the
\* call, pre_ids the ids stored before the call, embedded the number of
\* emails sent to the provider before the call, embedded_stored the number
\* of those whose id was stored already, get_failed the existence checks and
\* add_failed the insert request the backend failed, plan the options the
\* sync command was given, the user's answer to the confirmation, the ids
\* the store held when it was opened and the query sent to the mail source.
CallOf(op, name, records, strict_get, docs, pre_sync, r, emails, cleared, get_failed, add_failed, plan) ==
    LET carrying == {i \in DOMAIN records : records[i].embedding # None}
    IN  [op |-> op, collection |-> name, records |-> records,
         strict_get |-> strict_get, size |-> Len(records),
         with_embedding |-> Cardinality(carrying),
         distinct |-> \A i, j \in carrying :
                         records[i].email = records[j].email => i = j,
         existing |-> Cardinality({i \in carrying : records[i].email \in DOMAIN docs}),
         pre_ids |-> DOMAIN docs,
         pre_count |-> Cardinality(DOMAIN docs), pre_sync |-> pre_sync,
         raised |-> r.raised,
         skipped_no_embedding |-> r.skipped_no_embedding,
         checked |-> r.checked,
         duplicates |-> r.duplicates, added |-> r.added, stale |-> r.stale,
         requests |-> r.requests, backend_failed |-> r.backend_failed,
         embedded |-> Len(emails),
         embedded_stored |->
            Cardinality({i \in DOMAIN emails : emails[i] \in DOMAIN docs}),
         cleared |-> cleared,
         get_failed |-> get_failed, add_failed |-> add_failed, plan |-> plan]

\* the ids of the records, in order
IdsOf(records) == [i \in DOMAIN records |-> records[i].email]

\* time passes: datetime.now() does not go back
Tick ==
    /\ now < MaxClock
    /\ now' = now + 1
    /\ UNCHANGED <<collections, syncFiles, last, resolved, chroma>>

\* the state after add_emails answered r on the collection name of colls
Added(op, colls, name, records, strict_get, r, emails, cleared, get_failed, add_failed, plan) ==
    /\ collections' = [colls EXCEPT ![name].docs = r.docs]
    /\ syncFiles' = IF r.synced
                    THEN update_last_sync_date(syncFiles, name, now)
                    ELSE syncFiles
    /\ last' = CallOf(op, name, records, strict_get, colls[name].docs,
                      get_last_sync_date(syncFiles, name), r, emails, cleared,
                      get_failed, add_failed, plan)

\* EmailVectorStore(embedder).add_emails(records)
StoreAddEmails(embedder, name, opened, records, get_failed, add_failed, strict_get) ==
    /\ Idle
    /\ Cardinality(DOMAIN opened) <= MaxCollections
    /\ Added("add_emails", opened, name, records, strict_get,
             add_emails(opened[name].docs, records, get_failed, add_failed, strict_get),
             <<>>, FALSE, get_failed, add_failed, NoPlan)
    /\ UNCHANGED <<now, resolved, chroma>>

\* EmailVectorStore(get_embedder(provider, model)).add_emails(records)
AddEmails(provider, model, records, get_failed, add_failed, strict_get) ==
    StoreAddEmails(get_embedder(provider, model),
                   collection_name(get_model_id(get_embedder(provider, model))),
                   init_collection(collections, get_embedder(provider, model)),
                   records, get_failed, add_failed, strict_get)

\* the caller of add_emails calls it a second time, on the same store and
\* with the same records
AddEmailsAgain ==
    /\ last.op = "add_emails"
    /\ resolved = NoResolution
    /\ Added("add_emails_again", collections, last.collection, last.records,
             last.strict_get,
             add_emails(collections[last.collection].docs, last.records, {}, 0,
                        last.strict_get),
             <<>>, FALSE, {}, 0, NoPlan)
    /\ UNCHANGED <<now, resolved, chroma>>

\* EmailVectorStore(embedder).clear_collection()
StoreClearCollection(embedder, name, opened) ==
    /\ Idle
    /\ Cardinality(DOMAIN opened) <= MaxCollections
    /\ collections' = clear_collection(opened, embedder)
    /\ last' = [NoCall EXCEPT !.op = "clear_collection", !.collection = name,
                              !.pre_ids = DOMAIN opened[name].docs,
                              !.pre_count = count(opened[name]),
                              !.pre_sync = get_last_sync_date(syncFiles, name),
                              !.cleared = TRUE]
    /\ UNCHANGED <<syncFiles, now, resolved, chroma>>

\* EmailVectorStore(get_embedder(provider, model)).clear_collection()
ClearCollection(provider, model) ==
    StoreClearCollection(get_embedder(provider, model),
                         collection_name(get_model_id(get_embedder(provider, model))),
                         init_collection(collections, get_embedder(provider, model)))

\* BaseEmbedder.embed_emails: every email is sent to the provider; absent
\* marks the positions whose embedding the provider fails to produce
embed_emails(embedder, emails, absent) ==
    [i \in DOMAIN emails |->
        [email |-> emails[i],
         embedding |-> IF i \in absent THEN None
                       ELSE Vec(VectorLength(embedder))]]

\* strftime("%Y/%m/%d") of a time: the day it falls on; the time of day is
\* dropped
TicksPerDay == 2

DateStr(time) == ToString(time \div TicksPerDay)

\* cli.sync, lines 163-183: the query handed to GmailSyncer.sync_emails;
\* last_sync_date 0 is None
sync_query_always_bounded(query, incremental, last_sync_date) ==
    IF last_sync_date # 0
    THEN IF query # <<>>
         THEN query \o <<" ">> \o <<"after", ":", DateStr(last_sync_date)>>
         ELSE <<"after", ":", DateStr(last_sync_date)>>
    ELSE query

sync_query(query, incremental, last_sync_date) ==
    IF incremental /\ last_sync_date # 0
    THEN IF query # <<>>
         THEN query \o <<" ">> \o <<"after", ":", DateStr(last_sync_date)>>
         ELSE <<"after", ":", DateStr(last_sync_date)>>
    ELSE query

\* cli.sync, lines 188-210: the emails are checked, embedded and added
SyncEmails(embedder, name, cleared, doClear, emails, records, strict_get, plan) ==
    IF emails # <<>>
    THEN Added("sync", cleared, name, records, strict_get,
               add_emails(cleared[name].docs, records, {}, 0, strict_get),
               emails, doClear, {}, 0, plan)
    ELSE /\ collections' = cleared
         /\ syncFiles' = syncFiles
         /\ last' = [NoCall EXCEPT !.op = "sync", !.collection = name,
                                   !.pre_ids = DOMAIN cleared[name].docs,
                                   !.pre_count = count(cleared[name]),
                                   !.pre_sync = get_last_sync_date(syncFiles, name),
                                   !.cleared = doClear, !.plan = plan]

\* cli.sync, lines 140-186: the store is opened and, when it holds emails,
\* --clear is given and the user confirms, cleared; then the query for the
\* mail source is made from the query given and the sync date read
SyncStore(embedder, name, opened, clear, confirm, emails, absent, strict_get, query, incremental) ==
    /\ Idle
    /\ Cardinality(DOMAIN opened) <= MaxCollections
    /\ SyncEmails(embedder, name,
                  IF count(opened[name]) > 0 /\ clear /\ confirm
                  THEN clear_collection(opened, embedder) ELSE opened,
                  count(opened[name]) > 0 /\ clear /\ confirm,
                  emails, embed_emails(embedder, emails, absent), strict_get,
                  [query |-> query, incremental |-> incremental,
                   clear |-> clear, confirm |-> confirm,
                   opened_ids |-> DOMAIN opened[name].docs,
                   gmail_query |->
                       sync_query(query, incremental,
                                  get_last_sync_date(syncFiles, name))])
    /\ UNCHANGED <<now, resolved, chroma>>

\* the sync command (cli.py:121-213) with Gmail and the provider reachable:
\* emails is what GmailSyncer.sync_emails answers
Sync(provider, model, clear, confirm, emails, absent, strict_get, query, incremental) ==
    SyncStore(get_embedder(provider, model),
              collection_name(get_model_id(get_embedder(provider, model))),
              init_collection(collections, get_embedder(provider, model)),
              clear, confirm, emails, absent, strict_get, query, incremental)

\* EmailSearcher(embedder, EmailVectorStore(embedder)).search(query, n_results)
StoreSearch(embedder, name, opened, query_embedding, distance, n_results, failed, hits) ==
    /\ Idle
    /\ Cardinality(DOMAIN opened) <= MaxCollections
    /\ collections' = opened
    /\ last' = [op |-> "search", collection |-> name,
                pre_ids |-> DOMAIN opened[name].docs,
                pre_count |-> count(opened[name]),
                query_embedding |-> query_embedding, distance |-> distance,
                n_results |-> n_results, query_failed |-> failed,
                found |-> EmailSearcher_search(opened[name].docs, query_embedding,
                                               distance, n_results, failed, hits)]
    /\ UNCHANGED <<syncFiles, now, resolved, chroma>>

\* embedder.generate_embeddings_batch(texts)
GenerateEmbeddingsBatch(embedder, texts, failed) ==
    /\ Idle
    /\ last' = [op |-> "generate_embeddings_batch", provider |-> embedder.provider,
                texts |-> texts, failed |-> failed,
                embeddings |-> generate_embeddings_batch(embedder, texts, failed)]
    /\ UNCHANGED <<collections, syncFiles, now, resolved, chroma>>

\* EmailVectorStore(embedder).get_stats()
StoreGetStats(embedder, name, opened, unreadable, failed) ==
    /\ Idle
    /\ Cardinality(DOMAIN opened) <= MaxCollections
    /\ collections' = opened
    /\ last' = [op |-> "get_stats", collection |-> name,
                pre_count |-> count(opened[name]),
                file_present |-> name \in DOMAIN syncFiles,
                unreadable |-> unreadable, index_failed |-> failed,
                read |-> GetLastSyncDate(syncFiles, name, unreadable),
                stats |-> get_stats(opened[name], name, syncFiles, unreadable, failed)]
    /\ UNCHANGED <<syncFiles, now, resolved, chroma>>

\* EmailVectorStore(get_embedder(provider, model)).get_stats()
GetStats(provider, model, unreadable, failed) ==
    StoreGetStats(get_embedder(provider, model),
                  collection_name(get_model_id(get_embedder(provider, model))),
                  init_collection(collections, get_embedder(provider, model)),
                  unreadable, failed)

\* the caller takes the answer of the operation that has just run
Return ==
    /\ ~Idle
    /\ last' = NoCall
    /\ resolved' = NoResolution
    /\ UNCHANGED <<collections, syncFiles, now, chroma>>

---------------------------------------------------------------------------
(* The resolver.                                                           *)

\* find_matching_collections with the provider ignored when a model is given
find_matching_collections_any_provider(colls, provider, model) ==
    {name \in DOMAIN colls :
        LET model_id == colls[name].metadata.model_id
        IN  IF model # <<>>
            THEN \/ model_id = <<"ollama", "_">> \o ReplaceChar(model, ":", "_")
                 \/ model_id = <<"openai", "_">> \o ReplaceChar(model, "-", "_")
            ELSE IF provider # ""
                 THEN StartsWith(model_id, <<provider, "_">>)
                 ELSE TRUE}

\* EmailVectorStore.find_matching_collections: the names of the matches
find_matching_collections(colls, provider, model) ==
    {name \in DOMAIN colls :
        LET model_id == colls[name].metadata.model_id
        IN  IF model # <<>>
            THEN IF provider = "ollama"
                      /\ model_id = <<"ollama", "_">> \o ReplaceChar(model, ":", "_")
                 THEN TRUE
                 ELSE IF provider = "openai"
                           /\ model_id = <<"openai", "_">> \o ReplaceChar(model, "-", "_")
                      THEN TRUE
                      ELSE IF provider = ""
                           THEN \/ model_id = <<"ollama", "_">> \o ReplaceChar(model, ":", "_")
                                \/ model_id = <<"openai", "_">> \o ReplaceChar(model, "-", "_")
                           ELSE FALSE
            ELSE IF provider # ""
                 THEN StartsWith(model_id, <<provider, "_">>)
                 ELSE TRUE}

\* EmailVectorStore.get_collection_email_count
get_collection_email_count(colls, name) ==
    IF name \in DOMAIN colls THEN count(colls[name]) ELSE 0

\* FirstSorted with the sort ascending: the least populated match first
FirstSortedAscending(colls, matches) ==
    {name \in matches :
        \A other \in matches :
            get_collection_email_count(colls, name)
                <= get_collection_email_count(colls, other)}

\* get_smart_embedder, lines 58-59 and 83-87: the matches that can come
\* first when the list is sorted by email count, largest first (the order of
\* list_collections decides among equal counts)
FirstSorted(colls, matches) ==
    {name \in matches :
        \A other \in matches :
            get_collection_email_count(colls, other)
                <= get_collection_email_count(colls, name)}

\* get_smart_embedder, lines 62-70 and 94-103: the embedder made for the
\* model_id of the selected collection
EmbedderOf(model_id, provider, model) ==
    IF StartsWith(model_id, <<"ollama", "_">>)
    THEN OllamaEmbedder(ReplaceChar(RemoveAll(model_id, <<"ollama", "_">>), "_", ":"))
    ELSE IF StartsWith(model_id, <<"openai", "_">>)
         THEN OpenAIEmbedder(ReplaceChar(RemoveAll(model_id, <<"openai", "_">>), "_", "-"))
         ELSE get_embedder(provider, model)

\* get_smart_embedder with the fallback made from the configured defaults
\* alone, whatever provider and model were requested
get_smart_embedder_defaults(colls, provider, model, matches, selected) ==
    IF matches = {}
    THEN [provider |-> provider, model |-> model, matches |-> matches,
          embedder |-> get_embedder("", <<>>), info |-> "new collection",
          collection |-> <<>>, email_count |-> 0]
    ELSE [provider |-> provider, model |-> model, matches |-> matches,
          embedder |-> EmbedderOf(colls[selected].metadata.model_id, provider, model),
          info |-> "collection",
          collection |-> selected,
          email_count |-> get_collection_email_count(colls, selected)]

\* get_smart_embedder: what it answers when the sort puts selected first
get_smart_embedder(colls, provider, model, matches, selected) ==
    IF matches = {}
    THEN [provider |-> provider, model |-> model, matches |-> matches,
          embedder |-> get_embedder(provider, model), info |-> "new collection",
          collection |-> <<>>, email_count |-> 0]
    ELSE [provider |-> provider, model |-> model, matches |-> matches,
          embedder |-> EmbedderOf(colls[selected].metadata.model_id, provider, model),
          info |-> "collection",
          collection |-> selected,
          email_count |-> get_collection_email_count(colls, selected)]

\* the collections get_smart_embedder can select among the matches
Selectable(colls, matches) ==
    IF matches = {} THEN {<<>>} ELSE FirstSorted(colls, matches)

\* GetSmartEmbedder with the store of the provider it answers opened, as
\* EmailVectorStore(embedder) does
GetSmartEmbedderOpeningStore(provider, model) ==
    /\ Idle
    /\ \E selected \in Selectable(collections,
                                  find_matching_collections(collections, provider, model)) :
            /\ resolved' = get_smart_embedder(collections, provider, model,
                               find_matching_collections(collections, provider, model),
                               selected)
            /\ collections' =
                   init_collection(collections,
                       get_smart_embedder(collections, provider, model,
                           find_matching_collections(collections, provider, model),
                           selected).embedder)
    /\ UNCHANGED <<syncFiles, now, last, chroma>>

\* a call of get_smart_embedder(provider, model)
GetSmartEmbedder(provider, model) ==
    /\ Idle
    /\ \E selected \in Selectable(collections,
                                  find_matching_collections(collections, provider, model)) :
            resolved' = get_smart_embedder(collections, provider, model,
                            find_matching_collections(collections, provider, model),
                            selected)
    /\ UNCHANGED <<collections, syncFiles, now, last, chroma>>

\* what a command that ends before it searches has found
NoSearch == [queries |-> 0, asked |-> 0, results |-> <<>>, raised |-> FALSE]

\* cli.search, lines 239-251, and cli.ask, lines 310-322, once
\* get_smart_embedder has answered r: the store of r's provider is opened,
\* its statistics are read and, when it holds emails, it is searched
CommandSearch(op, r, name, opened, query_embedding, distance, n_results, failed, hits) ==
    /\ Cardinality(DOMAIN opened) <= MaxCollections
    /\ collections' = opened
    /\ last' = [op |-> op, collection |-> name,
                pre_collections |-> collections, pre_syncFiles |-> syncFiles,
                resolution |-> r,
                stats |-> get_stats(opened[name], name, syncFiles, FALSE, FALSE),
                found |-> IF count(opened[name]) = 0
                          THEN NoSearch
                          ELSE EmailSearcher_search(opened[name].docs, query_embedding,
                                                    distance, n_results, failed, hits)]
    /\ UNCHANGED <<syncFiles, now, resolved, chroma>>

\* the command on the store EmailVectorStore(r.embedder), with every answer
\* of the provider and the index to the search
CommandStore(op, r, name, opened, n_results) ==
    \E query_embedding \in {None, Vec(VectorLength(r.embedder))}, failed \in BOOLEAN :
        \E distance \in [DOMAIN opened[name].docs -> 0..1] :
            \E hits \in (IF Min(n_results, count(opened[name])) <= 0
                          THEN {<<>>}
                          ELSE ChromaQuery(opened[name].docs, distance,
                                           Min(n_results, count(opened[name])))) :
                CommandSearch(op, r, name, opened, query_embedding, distance,
                              n_results, failed, hits)

\* cli.search and cli.ask from get_smart_embedder's answer r on
CommandResolved(op, r, n_results) ==
    CommandStore(op, r, collection_name(get_model_id(r.embedder)),
                 init_collection(collections, r.embedder), n_results)

\* the search command (op "search_command", cli.py:227-264) and the ask
\* command (op "ask_command", cli.py:290-330) with the provider and model
\* options given and the limit n_results
Command(op, provider, model, n_results) ==
    /\ Idle
    /\ \E selected \in Selectable(collections,
                                  find_matching_collections(collections, provider, model)) :
            CommandResolved(op,
                get_smart_embedder(collections, provider, model,
                    find_matching_collections(collections, provider, model),
                    selected),
                n_results)

\* get_chroma_client(persist_directory)
GetChromaClient(persist_directory) ==
    /\ Idle
    /\ chroma' = get_client(chroma, persist_directory)
    /\ last' = [op |-> "get_chroma_client", directory |-> persist_directory,
                pre |-> chroma,
                client |-> get_client(chroma, persist_directory).client]
    /\ UNCHANGED <<collections, syncFiles, now, resolved>>

\* ChromaClientManager().reset()
Reset ==
    /\ Idle
    /\ chroma.client # NoClient
    /\ chroma' = reset(chroma)
    /\ last' = [op |-> "reset", pre |-> chroma]
    /\ UNCHANGED <<collections, syncFiles, now, resolved>>

---------------------------------------------------------------------------
(* Specifications.                                                         *)

\* the choices of strict_get that can differ on the ids given
StrictChoices(ids) == IF HasDuplicates(ids) THEN BOOLEAN ELSE {FALSE}

\* Spec: one store, of the configured provider and model, with every list
\* of records.
NextAddEmails ==
    /\ Idle
    /\ \E records \in RecordLists(get_embedder("", <<>>)) :
          \E strict_get \in StrictChoices(IdsOf(WithEmbedding(records))) :
              AddEmails("", <<>>, records, {}, 0, strict_get)

NextClear == ClearCollection("", <<>>)

NextSync ==
    /\ Idle
    /\ \E clear \in BOOLEAN, confirm \in BOOLEAN :
          \E emails \in SeqsUpTo(EmailIds, MaxLen) :
              \E absent \in SUBSET DOMAIN emails :
                  \E strict_get \in StrictChoices(emails) :
                      Sync("", <<>>, clear, confirm, emails, absent, strict_get,
                           <<>>, FALSE)

Next ==
    \/ Tick
    \/ NextAddEmails
    \/ AddEmailsAgain
    \/ NextClear
    \/ NextSync
    \/ Return

Spec == Init /\ [][Next]_vars

\* SpecFaults: the same store with an index that can fail: every set of
\* existence checks of a call and every one of its insert requests.
\* the numbers of the chunks of n ids
Chunks(n) == 1..((n + batch_size - 1) \div batch_size)

NextAddEmailsFaults ==
    /\ Idle
    /\ \E records \in RecordLists(get_embedder("", <<>>)) :
          \E get_failed \in SUBSET Chunks(Len(WithEmbedding(records))) :
              \E add_failed \in {0} \cup Chunks(Len(WithEmbedding(records))) :
                  AddEmails("", <<>>, records, get_failed, add_failed, FALSE)

NextFaults ==
    \/ Tick
    \/ NextAddEmailsFaults
    \/ NextClear
    \/ Return

SpecFaults == Init /\ [][NextFaults]_vars

\* SpecSearch: the same store, filled by add_emails, and searches with every
\* query embedding (absent or not), every n_results, every placement of the
\* stored vectors around the query and an index that can fail the query.
MaxResults == 4
MaxDistance == 2

\* the answers the index can give to the query the search sends, if any
Hits(docs, distance, n_results) ==
    IF Min(n_results, Cardinality(DOMAIN docs)) <= 0
    THEN {<<>>}
    ELSE ChromaQuery(docs, distance, Min(n_results, Cardinality(DOMAIN docs)))

SearchStore(embedder, name, opened) ==
    \E query_embedding \in {None, Vec(VectorLength(embedder))},
       n_results \in 0..MaxResults, failed \in BOOLEAN :
        \E distance \in [DOMAIN opened[name].docs -> 0..MaxDistance] :
            \E hits \in Hits(opened[name].docs, distance, n_results) :
                StoreSearch(embedder, name, opened, query_embedding, distance,
                            n_results, failed, hits)

NextSearch ==
    /\ Idle
    /\ SearchStore(get_embedder("", <<>>),
                   collection_name(get_model_id(get_embedder("", <<>>))),
                   init_collection(collections, get_embedder("", <<>>)))

NextSearching ==
    \/ NextAddEmails
    \/ NextSearch
    \/ Return

SpecSearch == Init /\ [][NextSearching]_vars

\* SpecExample: the store filled with the emails of a stub embedding model
\* that gives the i-th email the vector [i, 0, 0], and searches with query
\* vectors of the same length; the index computes the distances.
StubEmails == <<"e1", "e2", "e3">>

StubEmbedding(v) == [some |-> TRUE, len |-> Len(v), v |-> v]

StubRecords ==
    {[email |-> StubEmails[i], embedding |-> StubEmbedding(<<i, 0, 0>>)] :
        i \in DOMAIN StubEmails}

StubQueries == {<<1, 0, 0>>, <<0, 1, 0>>, <<1, 1, 0>>}

NextIndexStub ==
    /\ Idle
    /\ \E records \in SeqsUpTo(StubRecords, MaxLen) :
          \E strict_get \in StrictChoices(IdsOf(records)) :
              AddEmails("", <<>>, records, {}, 0, strict_get)

ExampleSearchStore(embedder, name, opened) ==
    \E q \in StubQueries, n_results \in 0..MaxResults :
        \E hits \in Hits(opened[name].docs, DistancesTo(opened[name].docs, q),
                          n_results) :
            StoreSearch(embedder, name, opened, StubEmbedding(q),
                        DistancesTo(opened[name].docs, q), n_results, FALSE, hits)

NextExampleSearch ==
    /\ Idle
    /\ ExampleSearchStore(get_embedder("", <<>>),
                          collection_name(get_model_id(get_embedder("", <<>>))),
                          init_collection(collections, get_embedder("", <<>>)))

NextExample ==
    \/ NextIndexStub
    \/ NextExampleSearch
    \/ Return

SpecExample == Init /\ [][NextExample]_vars

\* SpecBatch: generate_embeddings_batch of both providers on every list of
\* texts, with every pattern of failed requests.
Texts == {"t1", "t2", "t3"}

\* the requests the provider gets for n texts: one per text (Ollama), one
\* per chunk (OpenAI)
Requests(embedder, n) ==
    IF embedder.provider = "ollama" THEN 1..n
    ELSE 1..((n + embedding_batch_size - 1) \div embedding_batch_size)

NextGenerateEmbeddingsBatch ==
    /\ Idle
    /\ \E provider \in {"ollama", "openai"}, texts \in SeqsUpTo(Texts, MaxLen) :
          \E failed \in SUBSET Requests(get_embedder(provider, <<>>), Len(texts)) :
              GenerateEmbeddingsBatch(get_embedder(provider, <<>>), texts, failed)

NextBatch ==
    \/ NextGenerateEmbeddingsBatch
    \/ Return

SpecBatch == Init /\ [][NextBatch]_vars

\* SpecStats: the store of the configured provider and model, filled and
\* emptied by sync runs, and its statistics read with a sync record that can
\* be missing or unreadable and an index that can fail.
NextGetStats ==
    /\ Idle
    /\ \E unreadable \in BOOLEAN, failed \in BOOLEAN :
          GetStats("", <<>>, unreadable, failed)

NextStats ==
    \/ Tick
    \/ NextSync
    \/ NextGetStats
    \/ Return

SpecStats == Init /\ [][NextStats]_vars

\* SpecIncremental: sync runs of the configured provider and model with
\* and without --incremental, --clear and a query, at different times.
Queries == {<<>>, <<"is", ":", "unread">>}

NextSyncIncremental ==
    /\ Idle
    /\ \E clear \in BOOLEAN, incremental \in BOOLEAN, query \in Queries :
          \E emails \in SeqsUpTo(EmailIds, 1) :
              Sync("", <<>>, clear, TRUE, emails, {}, FALSE, query, incremental)

NextIncremental ==
    \/ Tick
    \/ NextSyncIncremental
    \/ Return

SpecIncremental == Init /\ [][NextIncremental]_vars

\* SpecClient: one process that asks for the index handle of several
\* storage directories and resets the manager; MaxClients bounds the handles
\* it creates.
MaxClients == 4

Directories == {"d1", "d2", "d3", "d4"}

NextGetChromaClient ==
    /\ Idle
    /\ chroma.client # NoClient \/ chroma.created < MaxClients
    /\ \E persist_directory \in Directories : GetChromaClient(persist_directory)

NextClient ==
    \/ NextGetChromaClient
    \/ Reset
    \/ Return

SpecClient == Init /\ [][NextClient]_vars

\* SpecResolver: the stores of several providers and models, filled by sync
\* runs of at most one email, and the resolver.
Providers == {"ollama", "openai"}

ModelNames ==
    {<<"m", ":", "t">>, <<"m", "-", "t">>, <<"m", "_", "t">>,
     <<"my", "-", "ollama", ":", "m">>}

ResolverEmailIds == {"e1", "e2"}

ResolverSync ==
    /\ Idle
    /\ \E provider \in Providers \cup {""}, model \in ModelNames \cup {<<>>} :
          \E emails \in SeqsUpTo(ResolverEmailIds, 1) :
              Sync(provider, model, FALSE, FALSE, emails, {}, FALSE, <<>>, FALSE)

ResolverGetSmartEmbedder ==
    /\ Idle
    /\ \E provider \in Providers \cup {""}, model \in ModelNames \cup {<<>>} :
          GetSmartEmbedder(provider, model)

ResolverClear ==
    /\ Idle
    /\ \E provider \in Providers \cup {""}, model \in ModelNames \cup {<<>>} :
          ClearCollection(provider, model)

NextResolver ==
    \/ ResolverSync
    \/ ResolverGetSmartEmbedder
    \/ ResolverClear
    \/ Return

SpecResolver == Init /\ [][NextResolver]_vars

\* SpecCommands: the stores of several providers and models, filled by sync
\* runs, and the search and ask commands with every provider and model
\* option.
Limits == {1, 2}

NextSearchCommand ==
    /\ Idle
    /\ \E provider \in Providers \cup {""}, model \in ModelNames \cup {<<>>} :
          \E n_results \in Limits :
              Command("search_command", provider, model, n_results)

NextAskCommand ==
    /\ Idle
    /\ \E provider \in Providers \cup {""}, model \in ModelNames \cup {<<>>} :
          \E n_results \in Limits :
              Command("ask_command", provider, model, n_results)

NextCommands ==
    \/ ResolverSync
    \/ NextSearchCommand
    \/ NextAskCommand
    \/ Return

SpecCommands == Init /\ [][NextCommands]_vars

---------------------------------------------------------------------------
(* Properties.  last describes the call that has just answered and the     *)
(* state it started from; collections and syncFiles are the state it left. *)

\* the operations that run add_emails
AddOps == {"add_emails", "add_emails_again", "sync"}

\* the documents of the collection the last call worked on
LastDocs == collections[last.collection].docs

\* the ids of the records of the last call that carry an embedding
LastCarried ==
    {last.records[i].email :
        i \in {j \in DOMAIN last.records : last.records[j].embedding # None}}

\* C1: a second add_emails with the same records, on the same store, inserts
\* nothing: the members and member_count after the second call are those
\* after the first call, for every collection state and every record list
\* (lists that repeat an id and first calls that raised included).
C1_IdempotentIngestion ==
    last.op = "add_emails_again" =>
        /\ DOMAIN LastDocs = last.pre_ids
        /\ count(collections[last.collection]) = last.pre_count

\* the second call ran on records that span more than one chunk, all of
\* which the first call had stored
C1_Witness ==
    /\ last.op = "add_emails_again"
    /\ last.with_embedding > batch_size
    /\ last.existing = last.with_embedding
    /\ last.duplicates = last.with_embedding
    /\ ~last.raised

\* C2: of N records with embeddings and pairwise different ids, M of them
\* stored already, add_emails inserts exactly N - M (member_count grows by
\* N - M), hands N - M to the insert and counts M duplicates, however the
\* ids fall into the chunks of the existence check.
C2_DedupCorrectness ==
    (last.op \in AddOps /\ last.distinct) =>
        /\ ~last.raised
        /\ count(collections[last.collection])
               = last.pre_count + (last.with_embedding - last.existing)
        /\ last.duplicates = last.existing
        /\ last.added = last.with_embedding - last.existing

\* the records span more than one chunk; some are stored already, some new
C2_Witness ==
    /\ last.op = "add_emails"
    /\ last.distinct
    /\ last.with_embedding > batch_size
    /\ 0 < last.existing
    /\ last.existing < last.with_embedding
    /\ count(collections[last.collection]) > last.pre_count

\* C3: every insert request add_emails sends carries only ids that are not
\* stored when it is sent, also for a list that holds an id more than once.
C3_InsertsOnlyNewIds ==
    last.op \in AddOps => last.stale = 0

\* C4: records without an embedding are counted as skipped and go neither to
\* the existence check nor to the insert nor into the collection; the
\* records with embeddings of the same call are checked and, when new,
\* inserted.
C4_AbsentEmbeddingsDropped ==
    last.op \in AddOps =>
        /\ last.skipped_no_embedding = last.size - last.with_embedding
        /\ last.checked = last.with_embedding
        /\ last.added + last.duplicates = last.with_embedding
        /\ \A id \in DOMAIN LastDocs : LastDocs[id] # None
        /\ DOMAIN LastDocs \subseteq last.pre_ids \cup LastCarried
        /\ last.distinct =>
               /\ ~last.raised
               /\ DOMAIN LastDocs = last.pre_ids \cup LastCarried

\* a list that mixes both kinds: a record without embedding whose id is
\* not stored afterwards, and a record with embedding that was inserted
C4_Witness ==
    /\ last.op = "add_emails"
    /\ last.skipped_no_embedding > 0
    /\ last.with_embedding > 0
    /\ count(collections[last.collection]) > last.pre_count
    /\ \E i \in DOMAIN last.records :
           /\ last.records[i].embedding = None
           /\ last.records[i].email \notin DOMAIN LastDocs

\* C5: a call of add_emails that inserts no record leaves the sync
\* watermark of the collection as it was before the call.
C5_ZeroInsertKeepsWatermark ==
    (last.op \in AddOps /\ DOMAIN LastDocs = last.pre_ids) =>
        get_last_sync_date(syncFiles, last.collection) = last.pre_sync

C7_StoredEmailsNotEmbedded ==
    last.op = "sync" => last.embedded_stored = 0

\* C8: find_matching_collections answers exactly the collections that
\* satisfy the request: with a model, those whose model_id is the identity a
\* provider (the one given, or any) gives that model; with a provider alone,
\* those that a store of that provider created; with neither, all.
C8_ResolverFiltering ==
    resolved.info # "none" =>
        resolved.matches =
            {n \in DOMAIN collections :
                IF resolved.model # <<>>
                THEN \E p \in (IF resolved.provider = "" THEN Providers
                               ELSE {resolved.provider}) :
                        collections[n].metadata.model_id
                            = get_model_id(get_embedder(p, resolved.model))
                ELSE resolved.provider # "" =>
                        collections[n].provider = resolved.provider}

\* a request with provider and model that matches one collection while a
\* collection of the other provider exists
C8_Witness ==
    /\ resolved.info # "none"
    /\ resolved.provider # ""
    /\ resolved.model # <<>>
    /\ Cardinality(resolved.matches) = 1
    /\ \E n \in DOMAIN collections : collections[n].provider # resolved.provider

C10_ProviderMatchesCollection ==
    resolved.info = "collection" =>
        get_model_id(resolved.embedder)
            = collections[resolved.collection].metadata.model_id

\* C11: when no collection matches the request, get_smart_embedder answers
\* "new collection" with a provider made for the requested provider and
\* model, the configured defaults standing in for the parts not given; a
\* request without a match is answered, never refused.
C11_CreationFallback ==
    (resolved.info # "none" /\ resolved.matches = {}) =>
        /\ resolved.info = "new collection"
        /\ resolved.embedder.provider =
               (IF resolved.provider # "" THEN resolved.provider
                ELSE embedding_provider)
        /\ resolved.embedder.model_name =
               (IF resolved.model # <<>> THEN resolved.model
                ELSE IF resolved.embedder.provider = "ollama" THEN ollama_model
                     ELSE openai_model)

\* a request that names provider and model, answered while collections
\* exist of which none matches
C11_Witness ==
    /\ resolved.info = "new collection"
    /\ resolved.provider # ""
    /\ resolved.model # <<>>
    /\ DOMAIN collections # {}

\* C12: when the embedding of the query text fails, EmailSearcher.search
\* answers the empty sequence and sends no query to the index.
C12_NoQueryWithoutEmbedding ==
    (last.op = "search" /\ last.query_embedding = None) =>
        /\ last.found.results = <<>>
        /\ last.found.queries = 0

\* a search without query embedding on a collection that holds emails, with
\* n_results positive
C12_Witness ==
    /\ last.op = "search"
    /\ last.query_embedding = None
    /\ last.pre_count > 0
    /\ last.n_results > 0

\* C13: EmailVectorStore.search asks the index for min(k, member_count)
\* results, in one query; it answers at most that many hits, each a stored
\* id with its distance, in ascending distance, and when the query succeeds
\* they are the nearest ones.
C13_SearchClampedAndOrdered ==
    (last.op = "search" /\ last.found.queries > 0) =>
        /\ last.found.queries = 1
        /\ last.found.asked =
               (IF last.n_results < last.pre_count THEN last.n_results
                ELSE last.pre_count)
        /\ Len(last.found.results) <= last.found.asked
        /\ \A i, j \in DOMAIN last.found.results :
               i < j =>
                   /\ last.found.results[i].id # last.found.results[j].id
                   /\ last.found.results[i].distance <= last.found.results[j].distance
        /\ \A i \in DOMAIN last.found.results :
               /\ last.found.results[i].id \in last.pre_ids
               /\ last.found.results[i].distance
                      = last.distance[last.found.results[i].id]
        /\ ~last.query_failed =>
               /\ Len(last.found.results) = last.found.asked
               /\ \A id \in last.pre_ids :
                      \/ \E i \in DOMAIN last.found.results :
                             last.found.results[i].id = id
                      \/ \A i \in DOMAIN last.found.results :
                             last.found.results[i].distance <= last.distance[id]

\* k exceeds the member_count of a collection of several emails at
\* different distances, and every member is answered
C13_Witness ==
    /\ last.op = "search"
    /\ last.n_results > last.pre_count
    /\ last.pre_count > 1
    /\ Len(last.found.results) = last.pre_count
    /\ last.found.results[1].distance < last.found.results[2].distance

\* C15: an index error during EmailVectorStore.search is not retried and
\* reaches the caller of the search as a failure.
C15_SearchErrorPropagates ==
    (last.op = "search" /\ last.query_failed /\ last.found.queries > 0) =>
        /\ last.found.queries = 1
        /\ last.found.raised

\* C14: add_emails sends each insert chunk at most once, and when the
\* backend fails an insert request the call sends no further request and
\* raises.
C14_InsertErrorNotRetried ==
    last.op \in AddOps =>
        /\ last.requests <= (last.added + batch_size - 1) \div batch_size
        /\ last.backend_failed => last.raised

\* the backend failed the second insert request of a call; the first one
\* had stored its records
C14_Witness ==
    /\ last.op = "add_emails"
    /\ last.backend_failed
    /\ last.requests = 2
    /\ last.added > batch_size
    /\ count(collections[last.collection]) > last.pre_count

\* C16: generate_embeddings_batch answers one entry per text, in the order
\* of the texts, for both providers and every pattern of failed requests:
\* the entries of a failed request (a text for Ollama, a chunk for OpenAI)
\* are None, exactly those, and every other entry is the embedding of the
\* text at its position.
C16_BatchSameLengthAndOrder ==
    last.op = "generate_embeddings_batch" =>
        /\ Len(last.embeddings) = Len(last.texts)
        /\ \A i \in DOMAIN last.embeddings :
               LET request == IF last.provider = "ollama" THEN i
                              ELSE ((i - 1) \div embedding_batch_size) + 1
               IN  IF request \in last.failed
                   THEN last.embeddings[i] = None
                   ELSE /\ last.embeddings[i] # None
                        /\ last.embeddings[i].text = last.texts[i]

\* OpenAI: texts in more than one chunk, the first chunk failed, the chunk
\* after it embedded
C16_Witness ==
    /\ last.op = "generate_embeddings_batch"
    /\ last.provider = "openai"
    /\ Len(last.texts) > embedding_batch_size
    /\ last.failed = {1}
    /\ last.embeddings[Len(last.texts)] # None

\* the provider the collection was created for
CreatorOf(collection) ==
    [provider |-> collection.provider, model_name |-> collection.model_name]

\* C17: every collection of the index is named "emails_" followed by the
\* model identity of the provider it was created for, and its metadata holds
\* that identity under model_id and the provider's dimension under
\* embedding_dimension; in every state, also after clear_collection.
C17_CollectionNameAndMetadata ==
    \A name \in DOMAIN collections :
        LET creator == CreatorOf(collections[name])
        IN  /\ name = <<"emails", "_">> \o get_model_id(creator)
            /\ collections[name].metadata.model_id = get_model_id(creator)
            /\ collections[name].metadata.embedding_dimension
                   = get_embedding_dimension(creator)

\* a collection of the OpenAI provider that held emails has been cleared
C17_Witness ==
    /\ last.op = "clear_collection"
    /\ last.pre_count > 0
    /\ last.collection \in DOMAIN collections
    /\ collections[last.collection].provider = "openai"
    /\ count(collections[last.collection]) = 0

\* C18: every vector stored in a collection is as long as the
\* embedding_dimension the collection's metadata declares, for both
\* providers and every model name.
C18_DimensionInvariant ==
    \A name \in DOMAIN collections :
        \A id \in DOMAIN collections[name].docs :
            collections[name].docs[id].len
                = collections[name].metadata.embedding_dimension

\* two spellings of one model name: they differ in ':' against '-' only
SameModelSpelledTwice(a, b) == ReplaceChar(a, ":", "-") = ReplaceChar(b, ":", "-")

\* C19: within a provider the colon-delimited and the dash-delimited spelling
\* of a model name have one model identity, hence one collection; and the
\* resolver matches, for a provider and a model, the collections whose
\* model_id is the get_model_id of that provider and model.
C19_ModelIdentityCanonical ==
    /\ \A a, b \in DOMAIN collections :
           (/\ collections[a].provider = collections[b].provider
            /\ SameModelSpelledTwice(collections[a].model_name,
                                      collections[b].model_name))
               => a = b
    /\ (resolved.info # "none" /\ resolved.provider # "" /\ resolved.model # <<>>) =>
           resolved.matches =
               {name \in DOMAIN collections :
                   collections[name].metadata.model_id
                       = get_model_id(get_embedder(resolved.provider, resolved.model))}

\* what a caller reads with stats.get("last_sync_date"); 0 is None
StatsLastSyncDate(stats) ==
    IF "last_sync_date" \in DOMAIN stats THEN stats.last_sync_date ELSE 0

\* C20: when the sync file of the collection is absent or cannot be read,
\* get_last_sync_date answers None and does not raise, and get_stats
\* reports no last_sync_date; with an index that answers, get_stats still
\* reports the collection and its count.
C20_MissingSyncRecordReadsAsNever ==
    (last.op = "get_stats" /\ (~last.file_present \/ last.unreadable)) =>
        /\ ~last.read.raised
        /\ last.read.date = 0
        /\ StatsLastSyncDate(last.stats) = 0
        /\ ~last.index_failed =>
               /\ "last_sync_date" \in DOMAIN last.stats
               /\ last.stats.total_emails = last.pre_count

\* get_stats has answered on a store whose sync file cannot be read while
\* the collection holds emails
C20_WitnessUnreadable ==
    /\ last.op = "get_stats"
    /\ last.unreadable
    /\ last.file_present
    /\ ~last.index_failed
    /\ last.stats.total_emails > 0

\* get_stats has answered on a store that has no sync file
C20_Witness ==
    /\ last.op = "get_stats"
    /\ ~last.file_present
    /\ ~last.unreadable

\* C21: on a collection that holds the three emails of the stub model, the
\* search with the query vector [1, 0, 0] and k = 2 answers two results in
\* ascending distance: first the email indexed with [1, 0, 0], at distance
\* 0, then the nearest of the other two.
C21_EndToEndExample ==
    (/\ last.op = "search"
     /\ last.pre_ids = Range(StubEmails)
     /\ last.query_embedding = StubEmbedding(<<1, 0, 0>>)
     /\ last.n_results = 2) =>
        /\ Len(last.found.results) = 2
        /\ last.found.results[1].id = StubEmails[1]
        /\ last.found.results[1].distance = 0
        /\ last.found.results[1].distance <= last.found.results[2].distance
        /\ \A id \in last.pre_ids \ {StubEmails[1]} :
               last.found.results[2].distance <= last.distance[id]

\* C22: a collection has a sync watermark only if a successful add_emails
\* has inserted a vector into it since it was created or created again by
\* clear_collection.  Vectors leave a collection with clear_collection only,
\* so such a collection exists and holds at least one vector.
C22_WatermarkOnlyAfterInsert ==
    \A name \in DOMAIN syncFiles :
        /\ name \in DOMAIN collections
        /\ count(collections[name]) > 0

\* the number of the existence check that covers position idx of the ids
ChunkOf(idx) == ((idx - 1) \div batch_size) + 1

\* C23: when the backend fails the existence check of a chunk, add_emails
\* takes no id of that chunk for stored and goes on with the other chunks,
\* whose stored ids it still leaves out; the ids it then sends to the insert
\* although they are stored do not make the call fail, and every record of
\* the call that was new is stored afterwards.  (Records with pairwise
\* different ids and an index that takes the inserts.)
C23_FailedCheckTolerated ==
    (/\ last.op = "add_emails"
     /\ last.get_failed # {}
     /\ last.add_failed = 0
     /\ last.distinct) =>
        /\ ~last.raised
        /\ last.duplicates =
               Cardinality({idx \in DOMAIN WithEmbedding(last.records) :
                               /\ ChunkOf(idx) \notin last.get_failed
                               /\ WithEmbedding(last.records)[idx].email \in last.pre_ids})
        /\ last.stale =
               Cardinality({idx \in DOMAIN WithEmbedding(last.records) :
                               /\ ChunkOf(idx) \in last.get_failed
                               /\ WithEmbedding(last.records)[idx].email \in last.pre_ids})
        /\ last.added = Len(WithEmbedding(last.records)) - last.duplicates
        /\ DOMAIN LastDocs = last.pre_ids \cup LastCarried

\* the existing-id lookup of the first of two chunks failed; a stored id of that chunk was
\* sent to the insert together with a new one, and the second chunk's stored
\* id was left out
C23_Witness ==
    /\ last.op = "add_emails"
    /\ last.get_failed = {1}
    /\ last.add_failed = 0
    /\ last.distinct
    /\ last.stale > 0
    /\ last.duplicates > 0
    /\ last.added > last.stale
    /\ ~last.raised

\* C24: a call of get_smart_embedder, whatever it is asked and whatever it
\* answers, leaves the collections, their members and their sync watermarks
\* as they were.
C24_ResolverPureSelection ==
    [][(resolved = NoResolution /\ resolved' # NoResolution) =>
           /\ collections' = collections
           /\ syncFiles' = syncFiles]_vars

\* get_smart_embedder has selected a collection that has a sync watermark
\* among several matches
C24_Witness ==
    /\ resolved.info # "none"
    /\ Cardinality(resolved.matches) > 1
    /\ resolved.collection \in DOMAIN syncFiles
    /\ count(collections[resolved.collection]) > 0

\* get_smart_embedder has answered "new collection" on an index that holds
\* collections
C24_WitnessFallback ==
    /\ resolved.info = "new collection"
    /\ DOMAIN collections # {}

\* C25: the first get_chroma_client(d) creates a handle opened on d; until
\* a reset every later get_chroma_client(d) answers that handle and creates
\* no other; and the handle answered for d was opened on d.
C25_ClientSingletonPerDirectory ==
    last.op = "get_chroma_client" =>
        /\ last.client # NoClient
        /\ last.client.path = last.directory
        /\ (last.pre.client # NoClient /\ last.pre.client.path = last.directory) =>
               /\ last.client = last.pre.client
               /\ chroma.created = last.pre.created

\* C26: with --incremental and a sync watermark for the store's collection,
\* the sync command asks the mail source for the user's query followed by
\* "after:<date of the watermark>", or for that bound alone when no query
\* was given; with --incremental and no watermark, or without
\* --incremental, it asks for the user's query as given.
C26_IncrementalSyncQuery ==
    last.op = "sync" =>
        /\ (last.plan.incremental /\ last.pre_sync # 0 /\ last.plan.query # <<>>) =>
               last.plan.gmail_query =
                   last.plan.query \o <<" ", "after", ":", DateStr(last.pre_sync)>>
        /\ (last.plan.incremental /\ last.pre_sync # 0 /\ last.plan.query = <<>>) =>
               last.plan.gmail_query = <<"after", ":", DateStr(last.pre_sync)>>
        /\ (~last.plan.incremental \/ last.pre_sync = 0) =>
               last.plan.gmail_query = last.plan.query

\* a sync run without --incremental, with a query, on a store that has a
\* watermark written on the second day
C26_WitnessFull ==
    /\ last.op = "sync"
    /\ ~last.plan.incremental
    /\ last.plan.query # <<>>
    /\ last.pre_sync >= TicksPerDay

\* an incremental sync run with a query on a store that has a watermark
C26_Witness ==
    /\ last.op = "sync"
    /\ last.plan.incremental
    /\ last.plan.query # <<>>
    /\ last.pre_sync # 0
    /\ last.plan.gmail_query # last.plan.query

\* C27: add_emails and update_last_sync_date (a sync run) and
\* clear_collection on the store of one model identity leave every
\* collection of another model identity as it was: its members, its count,
\* its metadata and its sync watermark.
C27_CollectionIsolation ==
    [][(last = NoCall /\ last' # NoCall) =>
           /\ \A name \in DOMAIN collections \ {last'.collection} :
                  /\ name \in DOMAIN collections'
                  /\ collections'[name] = collections[name]
           /\ \A name \in (DOMAIN syncFiles \cup DOMAIN syncFiles') \ {last'.collection} :
                  /\ name \in DOMAIN syncFiles
                  /\ name \in DOMAIN syncFiles'
                  /\ syncFiles'[name] = syncFiles[name]]_vars

\* a sync run has added an email to one store while the index holds a
\* collection of another model identity with emails and a sync watermark
C27_Witness ==
    /\ last.op = "sync"
    /\ last.added > 0
    /\ \E name \in DOMAIN collections \ {last.collection} :
           /\ count(collections[name]) > 0
           /\ name \in DOMAIN syncFiles

\* a store that held emails has been cleared while the index holds a
\* collection of another model identity with emails
C27_WitnessClear ==
    /\ last.op = "clear_collection"
    /\ last.pre_count > 0
    /\ \E name \in DOMAIN collections \ {last.collection} :
           count(collections[name]) > 0

\* the ids of the last call that went into insert requests which the index
\* took: the ids of the records with an embedding that no existence check
\* answered as stored, up to the request that raised
LastInsertedBeforeError ==
    LET carried == WithEmbedding(last.records)
        new == SelectAt(carried,
                        {idx \in DOMAIN carried :
                            \/ ChunkOf(idx) \in last.get_failed
                            \/ carried[idx].email \notin last.pre_ids}, 1)
    IN  {new[i].email : i \in 1..Min((last.requests - 1) * batch_size, Len(new))}

\* C28: when add_emails ends with an error the sync watermark of the
\* collection is what it was before the call, present or absent, and the
\* collection holds what it held before and the vectors of the insert
\* chunks that preceded the failed one.
C28_ErrorKeepsWatermark ==
    (last.op = "add_emails" /\ last.raised) =>
        /\ get_last_sync_date(syncFiles, last.collection) = last.pre_sync
        /\ (last.collection \in DOMAIN syncFiles) = (last.pre_sync # 0)
        /\ DOMAIN LastDocs = last.pre_ids \cup LastInsertedBeforeError

\* the backend failed the second insert chunk of a call, later than the
\* watermark the collection had; the first chunk's vectors are stored
C28_Witness ==
    /\ last.op = "add_emails"
    /\ last.raised
    /\ last.backend_failed
    /\ last.requests = 2
    /\ last.pre_sync # 0
    /\ last.pre_sync < now
    /\ Cardinality(DOMAIN LastDocs) > last.pre_count

\* C29: the search command and the ask command, from every state of the
\* index and with every provider and model option, leave the collections,
\* their members and the sync watermarks as they were.
C29_SearchAndAskReadOnly ==
    last.op \in {"search_command", "ask_command"} =>
        /\ collections = last.pre_collections
        /\ syncFiles = last.pre_syncFiles

\* C30: after clear_collection the store's collection exists under the same
\* name with the same model_id and holds nothing, and get_email_by_id
\* answers None for every id stored before.  The sync command clears
\* exactly when the collection it opened holds emails, --clear is given and
\* the user confirms; otherwise the emails it adds meet the collection as it
\* was opened.
C30_ClearEmptiesCollection ==
    /\ last.op = "clear_collection" =>
           /\ last.collection \in DOMAIN collections
           /\ last.collection =
                  collection_name(collections[last.collection].metadata.model_id)
           /\ collections[last.collection].metadata.model_id
                  = get_model_id(get_embedder("", <<>>))
           /\ count(collections[last.collection]) = 0
           /\ \A id \in last.pre_ids : get_email_by_id(LastDocs, id) = None
    /\ last.op = "sync" =>
           /\ last.cleared =
                  (last.plan.opened_ids # {} /\ last.plan.clear /\ last.plan.confirm)
           /\ last.cleared =>
                  /\ last.pre_ids = {}
                  /\ collections[last.collection].metadata.model_id
                         = get_model_id(get_embedder("", <<>>))
                  /\ \A id \in last.plan.opened_ids \ LastCarried :
                         get_email_by_id(LastDocs, id) = None
           /\ ~last.cleared =>
                  /\ last.pre_ids = last.plan.opened_ids
                  /\ last.plan.opened_ids \subseteq DOMAIN LastDocs

\* clear_collection has answered on a store that held several emails
C30_Witness ==
    /\ last.op = "clear_collection"
    /\ last.pre_count > 1
    /\ count(collections[last.collection]) = 0

\* a sync run that was given --clear on a store with emails and was not
\* confirmed
C30_WitnessUnconfirmed ==
    /\ last.op = "sync"
    /\ last.plan.clear
    /\ ~last.plan.confirm
    /\ last.plan.opened_ids # {}
    /\ last.added > 0

\* a sync run that cleared a store with emails and added emails
C30_WitnessSync ==
    /\ last.op = "sync"
    /\ last.cleared
    /\ last.added > 0

====
